---- MODULE Spec2Model ----
(***************************************************************************)
(* MCP server registry of the VS Code extension (src/src/extension.ts):    *)
(* MCPServerManager with its two persisted scope documents                 *)
(* (.vscode/mcp.json and <globalStorage>/mcp.json) and its token cache     *)
(* (globalState key 'mcpAuthTokens').                                      *)
(*                                                                         *)
(* Spec      : every manager method runs to completion before the next one *)
(*             starts, and the constructor's load finishes first.          *)
(* SpecAsync : the awaits of load and save are interleaving points, as the *)
(*             command handlers registered in activate allow.              *)
(***************************************************************************)
EXTENDS Integers, Sequences, FiniteSets, TLC

(* An optional property in memory is a sequence: <<>> when it is undefined *)
(* (or missing, which reads as undefined), <<v>> when it holds v.          *)
Undefined == <<>>
Def(v) == <<v>>
Val(o) == o[1]

(* An optional property of a JSON document is a set: {} when the property  *)
(* is not in the text, {v} when it is.                                     *)
Absent == {}
Present(v) == {v}

(* ---------------------------------------------------------------- bounds *)
(* Manager calls (add, remove, authenticate, restart) in one behaviour.    *)
MaxOps == 3
(* addServer / removeServer calls in one behaviour of SpecAsync, where     *)
(* they may overlap.                                                       *)
MaxStarted == 2

(* The server names of the model.                                           *)
Names == {"s1", "s2"}

Transports == {"stdio", "http", "websocket"}
Scopes == {"workspace", "global"}

EmptyMap == <<>>

(* ------------------------------------------------------------ JS helpers *)
(* a || b for an optional array or object: [] and {} are truthy in         *)
(* JavaScript, so only undefined takes the default.                        *)
OrElse(a, b) == IF a = Undefined THEN b ELSE Val(a)

(* JS truthiness of an optional string: undefined and "" are falsy.        *)
Truthy(o) == o # Undefined /\ Val(o) # ""

(* JSON.stringify drops a property whose value is undefined.               *)
JsonProp(o) == IF o = Undefined THEN Absent ELSE Present(Val(o))

(* Reading a property of a parsed JSON object: a missing one is undefined. *)
PropOf(j) == IF j = Absent THEN Undefined ELSE Def(CHOOSE v \in j : TRUE)

(* A map with key k set to v (Map.set, obj[k] = v).                        *)
MapSet(m, k, v) == [x \in DOMAIN m \cup {k} |-> IF x = k THEN v ELSE m[x]]

(* A map without key k (Map.delete).                                       *)
MapDelete(m, k) == [x \in DOMAIN m \ {k} |-> m[x]]

(* What readJsonFile returns: null (file missing or not JSON), or the      *)
(* parsed document with its servers object.                                *)
NoDoc == [ok |-> FALSE, servers |-> EmptyMap]
(* A file that is there and is not JSON: readFile or JSON.parse throws and *)
(* readJsonFile returns null all the same.                                 *)
Malformed == [ok |-> FALSE, servers |-> EmptyMap, malformed |-> TRUE]
Doc(m) == [ok |-> TRUE, servers |-> m]

(* --------------------------------------------------------------- configs *)
(* MCPServerConfig values handed to addServer. The bodies cover a stdio    *)
(* server with every optional field set, one with args and env unset, and  *)
(* url servers with an auth config. env is a set of <<key, value>> pairs.  *)
Env1 == {<<"API_KEY", "v">>}

(* AuthConfig: type, and the two optional fields the code reads.           *)
Auth(t, provider, clientId) == [type |-> t, provider |-> provider, clientId |-> clientId]

StdioFull ==
  [transport |-> "stdio", command |-> Def("npx"), url |-> Undefined,
   args |-> Def(<<"server-filesystem", "/data">>), env |-> Def(Env1),
   auth |-> Undefined]
StdioBare ==
  [transport |-> "stdio", command |-> Def("npx"), url |-> Undefined,
   args |-> Undefined, env |-> Undefined, auth |-> Undefined]
HttpApiKey ==
  [transport |-> "http", command |-> Undefined, url |-> Def("http://localhost:4000"),
   args |-> Def(<<>>), env |-> Def({}),
   auth |-> Def(Auth("api_key", Undefined, Undefined))]
WsBasic ==
  [transport |-> "websocket", command |-> Undefined, url |-> Def("ws://localhost:3000"),
   args |-> Def(<<>>), env |-> Def({}),
   auth |-> Def(Auth("basic", Undefined, Undefined))]
HttpOAuth ==
  [transport |-> "http", command |-> Undefined, url |-> Def("http://localhost:3000"),
   args |-> Def(<<>>), env |-> Def({}),
   auth |-> Def(Auth("oauth2", Def("github"), Def("cid")))]
WsOAuthBare ==
  [transport |-> "websocket", command |-> Undefined, url |-> Def("ws://localhost:3000"),
   args |-> Def(<<>>), env |-> Def({}),
   auth |-> Def(Auth("oauth2", Undefined, Undefined))]

MkConfig(n, sc, b) ==
  [name |-> Def(n), transport |-> Def(b.transport), type |-> Undefined,
   command |-> b.command, url |-> b.url, args |-> b.args, env |-> b.env,
   scope |-> sc, auth |-> b.auth]

(* The configs the model hands to addServer: each body under every name;  *)
(* the full stdio body under both scopes, the others under one.            *)
InputConfigs ==
  {MkConfig(n, sc, StdioFull) : n \in Names, sc \in Scopes}
  \cup {MkConfig(n, "workspace", b) : n \in Names, b \in {HttpApiKey, WsBasic}}
  \cup {MkConfig(n, "global", b) : n \in Names,
                                   b \in {StdioBare, HttpOAuth, WsOAuthBare}}

(* A config whose name is the empty string.                                *)
EmptyNameConfigs == {MkConfig("", "global", StdioBare)}

(* ------------------------------------------------------------- variables *)
VARIABLES
  servers,      \* MCPServerManager.servers: name -> config
  authTokens,   \* MCPServerManager.authTokens: name -> token
  wsDoc,        \* <workspace>/.vscode/mcp.json as readJsonFile returns it
  globalDoc,    \* <globalStorage>/mcp.json as readJsonFile returns it
  tokenStore,   \* globalState 'mcpAuthTokens'
  wsFolder,     \* vscode.workspace.workspaceFolders?.[0] is defined
  loadPc,       \* position of the constructor's un-awaited loadServers
  inflight,     \* saves started and not yet completed (SpecAsync)
  lastOp,       \* the manager call that completed last
  nOps,         \* manager calls and commands so far
  ui,           \* the tree view and what the last command showed
  srv           \* server.ts: the Express process and its agent requests

(* The variables of the extension.                                         *)
extVars == <<servers, authTokens, wsDoc, globalDoc, tokenStore, wsFolder,
             loadPc, inflight, lastOp, nOps, ui>>

vars == <<servers, authTokens, wsDoc, globalDoc, tokenStore, wsFolder,
          loadPc, inflight, lastOp, nOps, ui, srv>>

(* ------------------------------------------------------------------ load *)
(* { ...config, scope } for one entry of a parsed document: the entry's    *)
(* own properties (command, url, args, env, type) and the scope tag. The   *)
(* documents hold no name and no transport property.                       *)
LoadedEntry(e, sc) ==
  [name |-> Undefined, transport |-> Undefined, type |-> PropOf(e.type),
   command |-> PropOf(e.command), url |-> PropOf(e.url),
   args |-> PropOf(e.args), env |-> PropOf(e.env),
   scope |-> sc, auth |-> Undefined]

(* The workspace half of loadServers: every entry is set, tagged workspace.*)
LoadWorkspaceInto(m, doc) ==
  IF ~doc.ok THEN m
  ELSE [x \in DOMAIN m \cup DOMAIN doc.servers |->
          IF x \in DOMAIN doc.servers
          THEN LoadedEntry(doc.servers[x], "workspace") ELSE m[x]]

(* A load whose global half sets every entry, present or not.              *)
LoadGlobalOverwriting(m, doc) ==
  IF ~doc.ok THEN m
  ELSE [x \in DOMAIN m \cup DOMAIN doc.servers |->
          IF x \in DOMAIN doc.servers
          THEN LoadedEntry(doc.servers[x], "global") ELSE m[x]]

(* A load that gives up on the global document when the workspace          *)
(* document could not be read.                                             *)
LoadGlobalUnlessWorkspaceUnread(m, doc) ==
  IF ~doc.ok \/ (wsFolder /\ ~wsDoc.ok) THEN m
  ELSE [x \in DOMAIN m \cup DOMAIN doc.servers |->
          IF x \in DOMAIN m THEN m[x] ELSE LoadedEntry(doc.servers[x], "global")]

(* The global half: an entry is set only if the name is not present yet.   *)
LoadGlobalInto(m, doc) ==
  IF ~doc.ok THEN m
  ELSE [x \in DOMAIN m \cup DOMAIN doc.servers |->
          IF x \in DOMAIN m THEN m[x] ELSE LoadedEntry(doc.servers[x], "global")]

(* ------------------------------------------------------------------ save *)
(* The serverConfig object saveServers builds for one entry, as            *)
(* JSON.stringify writes it.                                               *)
SavedEntry(c) ==
  [command |-> JsonProp(c.command),
   args |-> Present(OrElse(c.args, <<>>)),
   env |-> Present(OrElse(c.env, {})),
   type |-> JsonProp(c.transport),
   url |-> IF Truthy(c.url) THEN Present(Val(c.url)) ELSE Absent]

(* workspaceServers / globalServers of saveServers.                        *)
ScopeServers(m, sc) ==
  LET ks == {k \in DOMAIN m : IF sc = "workspace" THEN m[k].scope = "workspace"
                                                  ELSE m[k].scope # "workspace"}
  IN [k \in ks |-> SavedEntry(m[k])]

(* What one saveServers call does to the two documents. fail names the     *)
(* write that rejects ("none", "workspace", "global"): a rejected write    *)
(* leaves its file as it was and throws, so the later write is not tried.  *)
(* A scope with no entries is not written at all, and the workspace        *)
(* document is not written when no folder is open.                         *)
WritesWorkspace(m) == DOMAIN ScopeServers(m, "workspace") # {} /\ wsFolder
WritesGlobal(m) == DOMAIN ScopeServers(m, "global") # {}

CanFail(m, fail) ==
  \/ fail = "none"
  \/ fail = "workspace" /\ WritesWorkspace(m)
  \/ fail = "global" /\ WritesGlobal(m)

SavedWorkspaceDoc(m, doc, fail) ==
  IF WritesWorkspace(m) /\ fail # "workspace"
  THEN Doc(ScopeServers(m, "workspace")) ELSE doc

SavedGlobalDoc(m, doc, fail) ==
  IF WritesGlobal(m) /\ fail = "none"
  THEN Doc(ScopeServers(m, "global")) ELSE doc

Fails == {"none", "workspace", "global"}

(* --------------------------------------------------------------- lastOp  *)
(* op: the call; name, cfg: its argument; present: the name was a key of   *)
(* the registry when it started; threw: it rejected; result, prompts: what *)
(* authenticateServer returned and how many input boxes it showed; a1, a2: *)
(* what its input boxes resolved to; storeFailed: globalState.update       *)
(* rejected.                                                               *)
Op(o, n, c, p, t) ==
  [op |-> o, name |-> n, cfg |-> c, present |-> p, threw |-> t,
   result |-> FALSE, prompts |-> 0, a1 |-> Undefined, a2 |-> Undefined,
   storeFailed |-> FALSE]
AuthOp(n, p, r, k, a1, a2, sf) ==
  [op |-> "authenticate", name |-> n, cfg |-> Undefined, present |-> p,
   threw |-> FALSE, result |-> r, prompts |-> k, a1 |-> a1, a2 |-> a2,
   storeFailed |-> sf]
NoOp == Op("new", "", Undefined, FALSE, FALSE)
(* The step made no manager call.                                          *)
NoCall == Op("none", "", Undefined, FALSE, FALSE)

(* The view: rows are the root rows the tree shows, one per registry       *)
(* entry at the last getChildren; cmd, refreshed and messages describe the *)
(* command that ran last: whether it called treeProvider.refresh() and     *)
(* which messages it showed.                                               *)
(* stage and trust belong to the add command: the prompt at which it       *)
(* returned ("called" when it went on to call the manager), and what its   *)
(* trust step took.                                                        *)
UiAdd(refreshed, messages, rows, stage, trust) ==
  [cmd |-> "add", refreshed |-> refreshed, messages |-> messages, rows |-> rows,
   stage |-> stage, trust |-> trust]
Ui(cmd, refreshed, messages, rows) ==
  [cmd |-> cmd, refreshed |-> refreshed, messages |-> messages, rows |-> rows,
   stage |-> "", trust |-> ""]
NoUi == Ui("none", FALSE, {}, EmptyMap)

(* ------------------------------------------------------------ server.ts *)
(* The agent requests the Express process handles. A request: its route,   *)
(* where its handler and its child process stand (pc), how many responses  *)
(* went out on it (sent) with the status of the first, and how many        *)
(* res.json calls were made after one had been sent (resent).              *)
Requests == {1, 2, 3}
Routes == {"launch", "command"}
NoRequest == [route |-> "", pc |-> "none", sent |-> 0, status |-> 0, resent |-> 0]

(* up: the Node process runs. Nothing in server.ts listens for             *)
(* 'uncaughtException', so an exception thrown from an event listener ends *)
(* the process.                                                            *)
NoServer == [up |-> TRUE, reqs |-> [r \in Requests |-> NoRequest]]

(* ------------------------------------------------------------ the store  *)
(* Documents found at start-up: none, or documents in the layout           *)
(* saveServers writes. Without a workspace folder there is no workspace    *)
(* document.                                                               *)
StdioEntry == [command |-> Present("npx"), args |-> Present(<<"server-filesystem", "/data">>),
               env |-> Present(Env1), type |-> Present("stdio"), url |-> Absent]
HttpEntry == [command |-> Absent, args |-> Present(<<>>), env |-> Present({}),
              type |-> Present("http"), url |-> Present("http://localhost:4000")]

InitWorkspaceDocs == {NoDoc, Doc([n \in {"s1"} |-> StdioEntry])}
InitGlobalDocs == {NoDoc, Doc([n \in {"s1"} |-> HttpEntry])}

BearerToken(v) == [accessToken |-> v, tokenType |-> "Bearer"]
BasicToken(v) == [accessToken |-> v, tokenType |-> "Basic"]

InitTokenStores == {EmptyMap, [n \in {"s2"} |-> BearerToken(<<"o","l","d">>)]}

Init ==
  /\ wsFolder \in BOOLEAN
  /\ wsDoc \in (IF wsFolder THEN InitWorkspaceDocs ELSE {NoDoc})
  /\ globalDoc \in InitGlobalDocs
  /\ tokenStore \in InitTokenStores
  /\ authTokens = tokenStore
  /\ servers = EmptyMap
  /\ loadPc = "workspace"
  /\ inflight = {}
  /\ lastOp = NoOp
  /\ nOps = 0
  /\ ui = NoUi
  /\ srv = NoServer

(* Start-up where a document may also be a file that does not parse; the   *)
(* token store is empty.                                                   *)
InitAnyFile ==
  /\ wsFolder \in BOOLEAN
  /\ wsDoc \in (IF wsFolder THEN InitWorkspaceDocs \cup {Malformed} ELSE {NoDoc})
  /\ globalDoc \in InitGlobalDocs \cup {Malformed}
  /\ tokenStore = EmptyMap
  /\ authTokens = tokenStore
  /\ servers = EmptyMap
  /\ loadPc = "workspace"
  /\ inflight = {}
  /\ lastOp = NoOp
  /\ nOps = 0
  /\ ui = NoUi
  /\ srv = NoServer

(* ------------------------------------------------- operations, atomic    *)
(* loadServers, both halves.                                               *)
LoadServers ==
  /\ loadPc = "workspace"
  /\ servers' = LoadGlobalInto(
                   LoadWorkspaceInto(servers, IF wsFolder THEN wsDoc ELSE NoDoc),
                   globalDoc)
  /\ loadPc' = "done"
  /\ lastOp' = Op("load", lastOp.name, Undefined, FALSE, FALSE)
  /\ UNCHANGED <<authTokens, wsDoc, globalDoc, tokenStore, wsFolder, inflight, nOps>>

(* An add that stores the entry as its document would give it back.        *)
AddedServersAsPersisted(m, c) ==
  MapSet(m, Val(c.name), LoadedEntry(SavedEntry(c), c.scope))

(* An add that leaves an entry of the same name in place.                  *)
AddedServersKeepingExisting(m, c) ==
  IF Val(c.name) \in DOMAIN m THEN m ELSE MapSet(m, Val(c.name), c)

(* The registry after addServer's this.servers.set(config.name, config).   *)
AddedServers(m, c) == MapSet(m, Val(c.name), c)

(* An add that takes the entry out of the registry again when the write    *)
(* fails.                                                                  *)
AddServerRollingBack(c, fail) ==
  /\ loadPc = "done"
  /\ nOps < MaxOps
  /\ LET m == AddedServers(servers, c) IN
       /\ CanFail(m, fail)
       /\ servers' = IF fail = "none" THEN m ELSE servers
       /\ wsDoc' = SavedWorkspaceDoc(m, wsDoc, fail)
       /\ globalDoc' = SavedGlobalDoc(m, globalDoc, fail)
  /\ lastOp' = Op("add", Val(c.name), Def(c), Val(c.name) \in DOMAIN servers,
                  fail # "none")
  /\ nOps' = nOps + 1
  /\ UNCHANGED <<authTokens, tokenStore, wsFolder, loadPc, inflight>>

(* addServer(config): set, then saveServers.                               *)
AddServer(c, fail) ==
  /\ loadPc = "done"
  /\ nOps < MaxOps
  /\ LET m == AddedServers(servers, c) IN
       /\ CanFail(m, fail)
       /\ servers' = m
       /\ wsDoc' = SavedWorkspaceDoc(m, wsDoc, fail)
       /\ globalDoc' = SavedGlobalDoc(m, globalDoc, fail)
  /\ lastOp' = Op("add", Val(c.name), Def(c), Val(c.name) \in DOMAIN servers,
                  fail # "none")
  /\ nOps' = nOps + 1
  /\ UNCHANGED <<authTokens, tokenStore, wsFolder, loadPc, inflight>>

(* The registry after removeServer's this.servers.delete(name).            *)
RemovedServers(m, n) == MapDelete(m, n)

(* removeServer(name): delete, then saveServers.                           *)
RemoveServer(n, fail) ==
  /\ loadPc = "done"
  /\ nOps < MaxOps
  /\ LET m == RemovedServers(servers, n) IN
       /\ CanFail(m, fail)
       /\ servers' = m
       /\ wsDoc' = SavedWorkspaceDoc(m, wsDoc, fail)
       /\ globalDoc' = SavedGlobalDoc(m, globalDoc, fail)
  /\ lastOp' = Op("remove", n, Undefined, n \in DOMAIN servers, fail # "none")
  /\ nOps' = nOps + 1
  /\ UNCHANGED <<authTokens, tokenStore, wsFolder, loadPc, inflight>>

(* The name whose removeServer call was the last call of the session that  *)
(* ends, when that call found the name and resolved; "" otherwise. lastOp  *)
(* carries it over the restart and the load that follows.                  *)
EndedWithRemoveOf ==
  IF lastOp.op = "remove" /\ lastOp.present /\ ~lastOp.threw THEN lastOp.name ELSE ""

(* A new session: activate constructs a new manager. Its maps start empty, *)
(* loadAuthTokens fills the token cache synchronously, loadServers is      *)
(* started. The documents and the token store are what the last session    *)
(* left.                                                                   *)
Restart ==
  /\ loadPc = "done"
  /\ inflight = {}
  /\ nOps < MaxOps
  /\ servers' = EmptyMap
  /\ authTokens' = tokenStore
  /\ loadPc' = "workspace"
  /\ lastOp' = Op("new", EndedWithRemoveOf, Undefined, FALSE, FALSE)
  /\ nOps' = nOps + 1
  /\ UNCHANGED <<wsDoc, globalDoc, tokenStore, wsFolder, inflight>>

(* ---------------------------------------------------------- authenticate *)
(* Texts typed into input boxes are sequences of characters.               *)
CharCode(ch) ==
  CASE ch = "u" -> 117 [] ch = "p" -> 112 [] ch = "k" -> 107
    [] ch = "1" -> 49 [] ch = ":" -> 58

Base64Alphabet ==
  << "A","B","C","D","E","F","G","H","I","J","K","L","M","N","O","P",
     "Q","R","S","T","U","V","W","X","Y","Z","a","b","c","d","e","f",
     "g","h","i","j","k","l","m","n","o","p","q","r","s","t","u","v",
     "w","x","y","z","0","1","2","3","4","5","6","7","8","9","+","/" >>

B64(i) == Base64Alphabet[i + 1]

RECURSIVE Base64Bytes(_)
(* Buffer.toString('base64'): three bytes to four characters, '=' padded.  *)
Base64Bytes(bs) ==
  IF Len(bs) = 0 THEN <<>>
  ELSE IF Len(bs) = 1 THEN
    << B64(bs[1] \div 4), B64((bs[1] % 4) * 16), "=", "=" >>
  ELSE IF Len(bs) = 2 THEN
    << B64(bs[1] \div 4), B64((bs[1] % 4) * 16 + bs[2] \div 16),
       B64((bs[2] % 16) * 4), "=" >>
  ELSE
    << B64(bs[1] \div 4), B64((bs[1] % 4) * 16 + bs[2] \div 16),
       B64((bs[2] % 16) * 4 + bs[3] \div 64), B64(bs[3] % 64) >>
    \o Base64Bytes(SubSeq(bs, 4, Len(bs)))

(* Credentials encoded without the colon between the two parts.            *)
BasicCredentialsNoSeparator(username, password) ==
  LET text == username \o password
  IN Base64Bytes([i \in 1..Len(text) |-> CharCode(text[i])])

(* Buffer.from(`${username}:${password}`).toString('base64')               *)
BasicCredentials(username, password) ==
  LET text == username \o <<":">> \o password
  IN Base64Bytes([i \in 1..Len(text) |-> CharCode(text[i])])

(* A showInputBox whose promise rejects: the await throws.                 *)
Rejects == << <<>>, <<>> >>

(* What showInputBox resolves to: undefined on dismissal, else the text;   *)
(* or it rejects.                                                          *)
FirstAnswers == {Undefined, Def(<<>>), Def(<<"u">>), Def(<<"k", "1">>), Rejects}
SecondAnswers == {Undefined, Def(<<>>), Def(<<"p">>), Rejects}

(* JS truthiness of an input box result: undefined and "" are falsy; a     *)
(* rejected box gives no result.                                           *)
Entered(a) == a # Undefined /\ a # Rejects /\ Val(a) # <<>>

(* A catch that covers the token storage alone.                            *)
CaughtFromStorageOnly(a1, a2, storeFails) == storeFails

(* The catch of authenticateServer ran: a prompt rejected or               *)
(* globalState.update rejected.                                            *)
Caught(a1, a2, storeFails) == storeFails \/ a1 = Rejects \/ a2 = Rejects

(* A dispatch that asks for an API key where no auth config is found.      *)
AuthFlowWithoutConfigCheck(m, n) ==
  IF n \notin DOMAIN m \/ m[n].auth = Undefined THEN "api_key"
  ELSE Val(m[n].auth).type

(* The flow authenticateServer dispatches to, "none" when it returns false *)
(* before any prompt.                                                      *)
AuthFlow(m, n) ==
  IF n \notin DOMAIN m \/ m[n].auth = Undefined THEN "none"
  ELSE LET a == Val(m[n].auth) IN
    IF a.type = "oauth2"
    THEN (IF a.provider = Undefined \/ a.clientId = Undefined THEN "none" ELSE "oauth2")
    ELSE a.type

(* Input boxes shown by the flow for the answers a1, a2.                   *)
PromptsShown(flow, a1) ==
  IF flow = "none" THEN 0
  ELSE IF flow = "basic" /\ Entered(a1) THEN 2 ELSE 1

(* A basic flow that stores the username alone when the password prompt   *)
(* is dismissed.                                                           *)
FlowTokenKeepingUsername(flow, a1, a2) ==
  IF flow \in {"oauth2", "api_key"} /\ Entered(a1) THEN Def(BearerToken(Val(a1)))
  ELSE IF flow = "basic" /\ Entered(a1)
       THEN Def(BasicToken(BasicCredentials(Val(a1),
                                            IF Entered(a2) THEN Val(a2) ELSE <<>>)))
  ELSE Undefined

(* The token the flow sets, Undefined when it sets none.                   *)
FlowToken(flow, a1, a2) ==
  IF flow \in {"oauth2", "api_key"} /\ Entered(a1) THEN Def(BearerToken(Val(a1)))
  ELSE IF flow = "basic" /\ Entered(a1) /\ Entered(a2)
       THEN Def(BasicToken(BasicCredentials(Val(a1), Val(a2))))
  ELSE Undefined

(* getServer(name): this.servers.get(name), on the registry m.             *)
getServer(m, n) == IF n \in DOMAIN m THEN Def(m[n]) ELSE Undefined

(* getAllServers(): the values of the registry m, here kept under their    *)
(* keys (the order of the array is not modelled).                          *)
getAllServers(m) == [k \in DOMAIN m |-> m[k]]

(* getAuthToken(serverName): this.authTokens.get(serverName).              *)
getAuthToken(n) == IF n \in DOMAIN authTokens THEN Def(authTokens[n]) ELSE Undefined

(* A save that writes only the entry of the server just authenticated.    *)
PersistedOnlyNew(cache, n) == [x \in {n} |-> cache[n]]

(* A save that leaves out the tokens of names not in the registry.         *)
PersistedWithoutOrphans(cache, n) ==
  [x \in DOMAIN cache \cap DOMAIN servers |-> cache[x]]

(* saveAuthTokens after the token of n was set: the tokens object holds    *)
(* every entry of the cache and replaces the stored value.                 *)
PersistedTokens(cache, n) == [x \in DOMAIN cache |-> cache[x]]

(* authenticateServer(serverName) with the answers a1, a2 to its prompts;  *)
(* storeFails: globalState.update rejects. The token is set in memory      *)
(* before saveAuthTokens; a rejection is caught and false is returned.     *)
AuthenticateServer(n, a1, a2, storeFails) ==
  /\ loadPc = "done"
  /\ nOps < MaxOps
  /\ LET flow == AuthFlow(servers, n)
         tok == FlowToken(flow, a1, a2)
     IN /\ (flow = "none" => a1 = Undefined /\ a2 = Undefined)
        /\ (PromptsShown(flow, a1) < 2 => a2 = Undefined)
        /\ (tok = Undefined => ~storeFails)
        /\ authTokens' = IF tok = Undefined THEN authTokens
                         ELSE MapSet(authTokens, n, Val(tok))
        /\ tokenStore' = IF tok = Undefined \/ storeFails THEN tokenStore
                         ELSE PersistedTokens(authTokens', n)
        /\ lastOp' = AuthOp(n, n \in DOMAIN servers,
                            tok # Undefined /\ ~storeFails, PromptsShown(flow, a1),
                            a1, a2, storeFails)
  /\ nOps' = nOps + 1
  /\ UNCHANGED <<servers, wsDoc, globalDoc, wsFolder, loadPc, inflight>>

(* ----------------------------------------------------------------- reads *)
(* The three getters are synchronous one-line lookups; lastOp records the  *)
(* call and what it found, the value returned is the operator of the same  *)
(* name. They can be called at any time, a load still pending included.    *)

(* getServer(n): `return this.servers.get(name)`.                          *)
GetServer(n) ==
  /\ nOps < MaxOps
  /\ lastOp' = Op("getServer", n, getServer(servers, n), n \in DOMAIN servers, FALSE)
  /\ nOps' = nOps + 1
  /\ UNCHANGED <<servers, authTokens, wsDoc, globalDoc, tokenStore, wsFolder,
                 loadPc, inflight>>

(* getAllServers(): `return Array.from(this.servers.values())`.            *)
GetAllServers ==
  /\ nOps < MaxOps
  /\ lastOp' = Op("getAllServers", "", Undefined,
                  DOMAIN getAllServers(servers) # {}, FALSE)
  /\ nOps' = nOps + 1
  /\ UNCHANGED <<servers, authTokens, wsDoc, globalDoc, tokenStore, wsFolder,
                 loadPc, inflight>>

(* A lookup that hands the token out once and forgets it.                  *)
GetAuthTokenConsuming(n) ==
  /\ nOps < MaxOps
  /\ lastOp' = Op("getAuthToken", n, Undefined, getAuthToken(n) # Undefined, FALSE)
  /\ nOps' = nOps + 1
  /\ authTokens' = MapDelete(authTokens, n)
  /\ UNCHANGED <<servers, wsDoc, globalDoc, tokenStore, wsFolder, loadPc, inflight>>

(* getAuthToken(n): `return this.authTokens.get(serverName)`.              *)
GetAuthToken(n) ==
  /\ nOps < MaxOps
  /\ lastOp' = Op("getAuthToken", n, Undefined, getAuthToken(n) # Undefined, FALSE)
  /\ nOps' = nOps + 1
  /\ UNCHANGED <<servers, authTokens, wsDoc, globalDoc, tokenStore, wsFolder,
                 loadPc, inflight>>

(* The manager's methods called directly: the view is not involved.        *)
Next ==
  \/ LoadServers /\ UNCHANGED <<ui, srv>>
  \/ \E c \in InputConfigs, f \in Fails : AddServer(c, f) /\ UNCHANGED <<ui, srv>>
  \/ \E n \in Names, f \in Fails : RemoveServer(n, f) /\ UNCHANGED <<ui, srv>>
  \/ \E n \in Names, a1 \in FirstAnswers, a2 \in SecondAnswers, sf \in BOOLEAN :
       AuthenticateServer(n, a1, a2, sf) /\ UNCHANGED <<ui, srv>>
  \/ Restart /\ UNCHANGED <<ui, srv>>

Spec == Init /\ [][Next]_vars

(* The same calls, with addServer also handed a config of empty name.      *)
NextAnyName ==
  \/ Next
  \/ \E c \in EmptyNameConfigs, f \in Fails : AddServer(c, f) /\ UNCHANGED <<ui, srv>>

SpecAnyName == Init /\ [][NextAnyName]_vars

(* The getters called in between the other calls, every write to a        *)
(* document succeeding.                                                    *)
NextReads ==
  \/ LoadServers /\ UNCHANGED <<ui, srv>>
  \/ \E c \in InputConfigs : AddServer(c, "none") /\ UNCHANGED <<ui, srv>>
  \/ \E n \in Names : RemoveServer(n, "none") /\ UNCHANGED <<ui, srv>>
  \/ \E n \in Names, a1 \in FirstAnswers, a2 \in SecondAnswers, sf \in BOOLEAN :
       AuthenticateServer(n, a1, a2, sf) /\ UNCHANGED <<ui, srv>>
  \/ Restart /\ UNCHANGED <<ui, srv>>
  \/ \E n \in Names : GetServer(n) /\ UNCHANGED <<ui, srv>>
  \/ GetAllServers /\ UNCHANGED <<ui, srv>>
  \/ \E n \in Names : GetAuthToken(n) /\ UNCHANGED <<ui, srv>>

SpecReads == Init /\ [][NextReads]_vars

(* ------------------------------------------- operations, await by await  *)
(* The command handlers registered in activate are async functions and     *)
(* nothing in them or in the manager holds a second call back while a      *)
(* first one awaits: each await below is a point where another handler may *)
(* run.                                                                    *)

(* loadServers up to and including its workspace half.                     *)
LoadWorkspaceStep ==
  /\ loadPc = "workspace"
  /\ servers' = LoadWorkspaceInto(servers, IF wsFolder THEN wsDoc ELSE NoDoc)
  /\ loadPc' = "global"
  /\ UNCHANGED <<authTokens, wsDoc, globalDoc, tokenStore, wsFolder, inflight,
                 lastOp, nOps>>

(* loadServers' global half.                                               *)
LoadGlobalStep ==
  /\ loadPc = "global"
  /\ servers' = LoadGlobalInto(servers, globalDoc)
  /\ loadPc' = "done"
  /\ lastOp' = Op("load", lastOp.name, Undefined, FALSE, FALSE)
  /\ UNCHANGED <<authTokens, wsDoc, globalDoc, tokenStore, wsFolder, inflight, nOps>>

(* saveServers up to its first await: both snapshots are built from the    *)
(* registry as it is now, and the first write is issued.                   *)
FirstWrite(m) ==
  IF WritesWorkspace(m) THEN "workspace"
  ELSE IF WritesGlobal(m) THEN "global" ELSE "done"

StartedSave(o, m, n, c, p) ==
  [id |-> nOps + 1, op |-> o, name |-> n, cfg |-> c, present |-> p,
   ws |-> ScopeServers(m, "workspace"), global |-> ScopeServers(m, "global"),
   pc |-> FirstWrite(m)]

(* addServer up to the first await of its saveServers.                     *)
StartAddServer(c) ==
  /\ nOps < MaxStarted
  /\ LET m == AddedServers(servers, c) IN
       /\ servers' = m
       /\ inflight' = inflight \cup
            {StartedSave("add", m, Val(c.name), Def(c), Val(c.name) \in DOMAIN servers)}
  /\ nOps' = nOps + 1
  /\ UNCHANGED <<authTokens, wsDoc, globalDoc, tokenStore, wsFolder, loadPc, lastOp>>

(* removeServer up to the first await of its saveServers.                  *)
StartRemoveServer(n) ==
  /\ nOps < MaxStarted
  /\ LET m == RemovedServers(servers, n) IN
       /\ servers' = m
       /\ inflight' = inflight \cup
            {StartedSave("remove", m, n, Undefined, n \in DOMAIN servers)}
  /\ nOps' = nOps + 1
  /\ UNCHANGED <<authTokens, wsDoc, globalDoc, tokenStore, wsFolder, loadPc, lastOp>>

(* The workspace write of a started save lands, or rejects.                *)
WriteWorkspaceStep(j, ok) ==
  /\ j \in inflight
  /\ j.pc = "workspace"
  /\ wsDoc' = IF ok THEN Doc(j.ws) ELSE wsDoc
  /\ inflight' = (inflight \ {j}) \cup
       {[j EXCEPT !.pc = IF ~ok THEN "failed"
                         ELSE IF DOMAIN j.global # {} THEN "global" ELSE "done"]}
  /\ UNCHANGED <<servers, authTokens, globalDoc, tokenStore, wsFolder, loadPc,
                 lastOp, nOps>>

(* The global write of a started save lands, or rejects.                   *)
WriteGlobalStep(j, ok) ==
  /\ j \in inflight
  /\ j.pc = "global"
  /\ globalDoc' = IF ok THEN Doc(j.global) ELSE globalDoc
  /\ inflight' = (inflight \ {j}) \cup
       {[j EXCEPT !.pc = IF ok THEN "done" ELSE "failed"]}
  /\ UNCHANGED <<servers, authTokens, wsDoc, tokenStore, wsFolder, loadPc,
                 lastOp, nOps>>

(* The promise of addServer / removeServer settles.                        *)
CompleteSave(j) ==
  /\ j \in inflight
  /\ j.pc \in {"done", "failed"}
  /\ inflight' = inflight \ {j}
  /\ lastOp' = Op(j.op, j.name, j.cfg, j.present, j.pc = "failed")
  /\ UNCHANGED <<servers, authTokens, wsDoc, globalDoc, tokenStore, wsFolder,
                 loadPc, nOps>>

NextAsync ==
  \/ LoadWorkspaceStep /\ UNCHANGED <<ui, srv>>
  \/ LoadGlobalStep /\ UNCHANGED <<ui, srv>>
  \/ \E c \in InputConfigs : StartAddServer(c) /\ UNCHANGED <<ui, srv>>
  \/ \E n \in Names : StartRemoveServer(n) /\ UNCHANGED <<ui, srv>>
  \/ \E j \in inflight, ok \in BOOLEAN : WriteWorkspaceStep(j, ok) /\ UNCHANGED <<ui, srv>>
  \/ \E j \in inflight, ok \in BOOLEAN : WriteGlobalStep(j, ok) /\ UNCHANGED <<ui, srv>>
  \/ \E j \in inflight : CompleteSave(j) /\ UNCHANGED <<ui, srv>>
  \/ \E n \in Names, a1 \in FirstAnswers, a2 \in SecondAnswers, sf \in BOOLEAN :
       AuthenticateServer(n, a1, a2, sf) /\ UNCHANGED <<ui, srv>>
  \/ Restart /\ UNCHANGED <<ui, srv>>

SpecAsync == Init /\ [][NextAsync]_vars

(* ------------------------------------------------ commands and the view  *)
(* A row whose glyph never consults the token cache.                       *)
MCPServerItemIgnoringToken(c, toks) ==
  [label |-> c.name, transport |-> c.transport,
   glyph |-> IF c.auth = Undefined THEN "none" ELSE "locked"]

(* new MCPServerItem(server.name, server, ..., serverManager): the label   *)
(* is the config's name field, the glyph follows config.auth and           *)
(* getAuthToken(label).                                                    *)
MCPServerItem(c, toks) ==
  [label |-> c.name, transport |-> c.transport,
   glyph |-> IF c.auth = Undefined THEN "none"
             ELSE IF c.name # Undefined /\ Val(c.name) \in DOMAIN toks
                  THEN "authenticated" ELSE "locked"]

(* getChildren() for the root: one item per entry of getAllServers().      *)
getChildren(m, toks) == [k \in DOMAIN m |-> MCPServerItem(m[k], toks)]

(* server.label as a command hands it to the manager; an item built from   *)
(* an entry without name has the label undefined, a key no entry has.      *)
LabelOf(item) == IF item.label = Undefined THEN "undefined" ELSE Val(item.label)

(* What the name box can resolve to: undefined on dismissal, else a text   *)
(* validateInput accepts (not blank, not a key of the registry).           *)
NameAnswers == {Undefined} \cup {Def(n) : n \in Names \ DOMAIN servers}

(* What a quick pick over the items can resolve to.                        *)
PickAnswers(items) == {Undefined} \cup {Def(i) : i \in items}

(* What the command or URL box can resolve to.                             *)
TargetAnswers(transport) ==
  {Undefined, Def(""),
   Def(CASE transport = "stdio" -> "npx"
         [] transport = "http" -> "http://localhost:3000"
         [] transport = "websocket" -> "ws://localhost:3000")}

(* What the arguments box can resolve to; a text is the sequence of its    *)
(* words and single spaces. The empty text is handled as a dismissal is    *)
(* (`if (argsInput)`) and the dismissal stands for both.                   *)
ArgsAnswers == {Undefined, Def(<<"--port", " ", " ", "3000">>)}

(* argsInput.split(' ').filter(arg => arg.trim().length > 0)               *)
SplitArgs(text) == SelectSeq(text, LAMBDA w : w # " ")

(* What the environment variables pick can resolve to; 'No' is handled as  *)
(* a dismissal is (`addEnvVar === 'Yes'` is the only test) and the         *)
(* dismissal stands for both.                                              *)
EnvAnswers == {Undefined, Def("Yes")}

(* What the modal trust warning can resolve to.                            *)
TrustAnswers == PickAnswers({"Trust", "Cancel"})

(* The config the add command hands to addServer.                          *)
CommandConfig(name, transport, commandOrUrl, argsInput, scope) ==
  [name |-> Def(name), transport |-> Def(transport), type |-> Undefined,
   command |-> IF transport = "stdio" THEN Def(commandOrUrl) ELSE Undefined,
   url |-> IF transport # "stdio" THEN Def(commandOrUrl) ELSE Undefined,
   args |-> Def(IF argsInput = Undefined THEN <<>> ELSE SplitArgs(Val(argsInput))),
   env |-> Def({}), scope |-> scope, auth |-> Undefined]

(* A command that returns before it calls the manager.                     *)
CommandReturns(cmd) ==
  /\ nOps' = nOps + 1
  /\ ui' = Ui(cmd, FALSE, {}, ui.rows)
  /\ lastOp' = NoCall
  /\ UNCHANGED <<servers, authTokens, wsDoc, globalDoc, tokenStore, wsFolder,
                 loadPc, inflight>>

(* An early return that still fires the refresh.                           *)
AddReturnsRefreshing(stage, trust) ==
  /\ nOps' = nOps + 1
  /\ ui' = UiAdd(TRUE, {}, getChildren(servers, authTokens), stage, trust)
  /\ lastOp' = NoCall
  /\ UNCHANGED <<servers, authTokens, wsDoc, globalDoc, tokenStore, wsFolder,
                 loadPc, inflight>>

(* The add command returns at the prompt named stage, before it calls the  *)
(* manager.                                                                *)
AddReturns(stage, trust) ==
  /\ nOps' = nOps + 1
  /\ ui' = UiAdd(FALSE, {}, ui.rows, stage, trust)
  /\ lastOp' = NoCall
  /\ UNCHANGED <<servers, authTokens, wsDoc, globalDoc, tokenStore, wsFolder,
                 loadPc, inflight>>

(* What the add command records of its trust step: the setting let it      *)
(* through, or the answer to the modal warning.                            *)
TrustTaken(trustUnknownServers, trust) ==
  IF trustUnknownServers THEN "setting"
  ELSE IF trust = Undefined THEN "dismissed" ELSE Val(trust)

(* An add command that goes on when the trust warning is dismissed.        *)
AddServerFromScopeUnlessCancel(name, transport, commandOrUrl, argsInput, scope) ==
  \E trustUnknownServers \in BOOLEAN, trust \in TrustAnswers :
    /\ trustUnknownServers => trust = Undefined
    /\ IF ~trustUnknownServers /\ trust = Def("Cancel")
       THEN AddReturns("trust", TrustTaken(trustUnknownServers, trust))
       ELSE \E addEnvVar \in EnvAnswers, fail \in Fails :
         LET shown == IF addEnvVar = Def("Yes") THEN {"env placeholder"} ELSE {}
             taken == TrustTaken(trustUnknownServers, trust)
         IN /\ AddServer(CommandConfig(name, transport, commandOrUrl, argsInput, scope),
                         fail)
            /\ ui' = IF fail = "none"
                     THEN UiAdd(TRUE, shown \cup {"added"},
                                getChildren(servers', authTokens'), "called", taken)
                     ELSE UiAdd(FALSE, shown \cup {"Failed to add"}, ui.rows,
                                "called", taken)

(* The add command from the scope pick on: trust confirmation unless the   *)
(* setting trustUnknownServers is on, the environment variables pick,      *)
(* addServer, and on success refresh and the success message.              *)
AddServerFromScope(name, transport, commandOrUrl, argsInput, scope) ==
  \E trustUnknownServers \in BOOLEAN, trust \in TrustAnswers :
    /\ trustUnknownServers => trust = Undefined
    /\ IF ~trustUnknownServers /\ trust # Def("Trust")
       THEN AddReturns("trust", TrustTaken(trustUnknownServers, trust))
       ELSE \E addEnvVar \in EnvAnswers, fail \in Fails :
         LET shown == IF addEnvVar = Def("Yes") THEN {"env placeholder"} ELSE {}
             taken == TrustTaken(trustUnknownServers, trust)
         IN /\ AddServer(CommandConfig(name, transport, commandOrUrl, argsInput, scope),
                         fail)
            /\ ui' = IF fail = "none"
                     THEN UiAdd(TRUE, shown \cup {"added"},
                                getChildren(servers', authTokens'), "called", taken)
                     ELSE UiAdd(FALSE, shown \cup {"Failed to add"}, ui.rows,
                                "called", taken)

(* The add command from the command or URL box on.                         *)
AddServerFromTarget(name, transport) ==
  \E commandOrUrl \in TargetAnswers(transport) :
    IF ~Truthy(commandOrUrl) THEN AddReturns("target", "")
    ELSE \E argsInput \in ArgsAnswers, scope \in PickAnswers(Scopes) :
      /\ transport # "stdio" => argsInput = Undefined
      /\ IF scope = Undefined THEN AddReturns("scope", "")
         ELSE AddServerFromScope(name, transport, Val(commandOrUrl), argsInput,
                                 Val(scope))

(* mcpServers.addServer: the prompts in order, each dismissal a return.    *)
AddServerCommand ==
  /\ loadPc = "done"
  /\ nOps < MaxOps
  /\ \E name \in NameAnswers :
       IF name = Undefined THEN AddReturns("name", "")
       ELSE \E transport \in PickAnswers(Transports) :
         IF transport = Undefined THEN AddReturns("transport", "")
         ELSE AddServerFromTarget(Val(name), Val(transport))

(* A remove command whose catch shows nothing.                             *)
RemoveServerCommandSilent(k, confirm, fail) ==
  /\ loadPc = "done"
  /\ nOps < MaxOps
  /\ k \in DOMAIN ui.rows
  /\ IF confirm # Def("Remove") THEN fail = "none" /\ CommandReturns("remove")
     ELSE /\ RemoveServer(LabelOf(ui.rows[k]), fail)
          /\ ui' = IF fail = "none"
                   THEN Ui("remove", TRUE, {"removed"},
                           getChildren(servers', authTokens'))
                   ELSE Ui("remove", FALSE, {}, ui.rows)

(* mcpServers.removeServer on the row k of the tree: the modal             *)
(* confirmation, removeServer(server.label), and on success refresh and    *)
(* the message.                                                            *)
RemoveServerCommand(k, confirm, fail) ==
  /\ loadPc = "done"
  /\ nOps < MaxOps
  /\ k \in DOMAIN ui.rows
  /\ IF confirm # Def("Remove") THEN fail = "none" /\ CommandReturns("remove")
     ELSE /\ RemoveServer(LabelOf(ui.rows[k]), fail)
          /\ ui' = IF fail = "none"
                   THEN Ui("remove", TRUE, {"removed"},
                           getChildren(servers', authTokens'))
                   ELSE Ui("remove", FALSE, {"Failed to remove"}, ui.rows)

(* An edit that drops the server it is invoked on.                         *)
EditServerCommandRemoving(k) ==
  /\ k \in DOMAIN ui.rows
  /\ RemoveServer(LabelOf(ui.rows[k]), "none")
  /\ ui' = Ui("edit", FALSE, {"edit placeholder"}, ui.rows)

(* mcpServers.editServer on the row k: a message.                          *)
EditServerCommand(k) ==
  /\ loadPc = "done"
  /\ nOps < MaxOps
  /\ k \in DOMAIN ui.rows
  /\ nOps' = nOps + 1
  /\ ui' = Ui("edit", FALSE, {"edit placeholder"}, ui.rows)
  /\ lastOp' = NoCall
  /\ UNCHANGED <<servers, authTokens, wsDoc, globalDoc, tokenStore, wsFolder,
                 loadPc, inflight>>

(* mcpServers.authenticateServer on the row k: authenticateServer of the   *)
(* label, then one of two messages; the manager shows its own when         *)
(* storing the token throws.                                               *)
AuthenticateServerCommand(k, a1, a2, storeFails) ==
  /\ k \in DOMAIN ui.rows
  /\ AuthenticateServer(LabelOf(ui.rows[k]), a1, a2, storeFails)
  /\ ui' = Ui("authenticate", FALSE,
              (IF lastOp'.result THEN {"Successfully authenticated"}
               ELSE {"Authentication failed"})
                \cup (IF Caught(a1, a2, storeFails)
                      THEN {"Authentication failed for"} ELSE {}),
              ui.rows)

(* mcpServers.refresh: treeProvider.refresh(), after which the view asks   *)
(* getChildren again.                                                      *)
RefreshCommand ==
  /\ loadPc = "done"
  /\ nOps < MaxOps
  /\ nOps' = nOps + 1
  /\ ui' = Ui("refresh", TRUE, {}, getChildren(servers, authTokens))
  /\ lastOp' = NoCall
  /\ UNCHANGED <<servers, authTokens, wsDoc, globalDoc, tokenStore, wsFolder,
                 loadPc, inflight>>

(* The configs with an auth config: none of them can come from the add     *)
(* command, they reach addServer from a direct call.                       *)
AuthInputConfigs == {c \in InputConfigs : c.auth # Undefined /\ c.name = Def("s2")}

(* The extension as its user drives it, call by call.                      *)
NextUI ==
  \/ LoadServers /\ UNCHANGED <<ui, srv>>
  \/ AddServerCommand /\ UNCHANGED srv
  \/ \E k \in Names, confirm \in PickAnswers({"Remove", "Cancel"}), f \in Fails :
       RemoveServerCommand(k, confirm, f) /\ UNCHANGED srv
  \/ \E k \in Names : EditServerCommand(k) /\ UNCHANGED srv
  \/ \E k \in Names, a1 \in FirstAnswers, a2 \in SecondAnswers, sf \in BOOLEAN :
       AuthenticateServerCommand(k, a1, a2, sf) /\ UNCHANGED srv
  \/ RefreshCommand /\ UNCHANGED srv
  \/ \E c \in AuthInputConfigs :
       AddServer(c, "none") /\ ui' = Ui("none", FALSE, {}, ui.rows) /\ UNCHANGED srv
  \/ Restart /\ ui' = NoUi /\ UNCHANGED srv

SpecUI == Init /\ [][NextUI]_vars

(* The same, started from documents that may not parse.                    *)
SpecUIAnyFile == InitAnyFile /\ [][NextUI]_vars

(* ------------------------------------------------- server.ts, handlers   *)
(* What spawn can do: throw synchronously (an argument list too long, for  *)
(* one), return a child whose start fails later (no such executable: the   *)
(* child emits 'error', then 'close' with a negative code), or return a    *)
(* running child.                                                          *)
SpawnOutcomes == {"throws", "fails", "ok"}

(* res.status(status).json(...) on the request q: the first call sends the *)
(* response; a later one throws ERR_HTTP_HEADERS_SENT.                     *)
Respond(q, status, pc) ==
  IF q.sent = 0
  THEN [q EXCEPT !.sent = 1, !.status = status, !.pc = pc]
  ELSE [q EXCEPT !.resent = q.resent + 1, !.pc = pc]

(* The handler's synchronous part, after the validation middleware let the *)
(* request through: an unknown agent ID is answered with 400 (launch       *)
(* only), a spawn that throws with 500 from the catch; otherwise the       *)
(* listeners are attached and the handler returns.                         *)
Accepted(route, knownAgent, spawned) ==
  LET q == [NoRequest EXCEPT !.route = route] IN
    IF route = "launch" /\ ~knownAgent THEN Respond(q, 400, "ended")
    ELSE IF spawned = "throws" THEN Respond(q, 500, "ended")
    ELSE [q EXCEPT !.pc = IF spawned = "fails" THEN "failing" ELSE "running"]

(* POST /api/agent/launch.                                                 *)
PostLaunch(r, knownAgent, spawned) ==
  /\ srv.up
  /\ srv.reqs[r].pc = "none"
  /\ srv' = [srv EXCEPT !.reqs[r] = Accepted("launch", knownAgent, spawned)]
  /\ UNCHANGED extVars

(* POST /api/agent/command.                                                *)
PostCommand(r, spawned) ==
  /\ srv.up
  /\ srv.reqs[r].pc = "none"
  /\ srv' = [srv EXCEPT !.reqs[r] = Accepted("command", TRUE, spawned)]
  /\ UNCHANGED extVars

(* The child of request r emits 'error'. The launch handler's listener     *)
(* answers 500; the command handler attached none, and an 'error' event    *)
(* without listener is thrown.                                             *)
ChildError(r) ==
  /\ srv.up
  /\ srv.reqs[r].pc = "failing"
  /\ srv' = IF srv.reqs[r].route = "launch"
            THEN [srv EXCEPT !.reqs[r] = Respond(srv.reqs[r], 500, "errored")]
            ELSE [up |-> FALSE, reqs |-> [srv.reqs EXCEPT ![r].pc = "errored"]]
  /\ UNCHANGED extVars

(* The exit codes 'close' reports: 0, a failure of the runner, and the     *)
(* negative code that follows a failed start.                              *)
CloseCodes(pc) == IF pc = "errored" THEN {-2} ELSE {0, 1}

(* The child of request r emits 'close': 500 for a code other than 0, else *)
(* the output with 200. The listener does not look at whether a response   *)
(* was sent already; when one was, res.json throws out of the listener.    *)
ChildClose(r, code) ==
  /\ srv.up
  /\ srv.reqs[r].pc \in {"running", "errored"}
  /\ code \in CloseCodes(srv.reqs[r].pc)
  /\ LET q == Respond(srv.reqs[r], IF code # 0 THEN 500 ELSE 200, "ended")
     IN srv' = [up |-> q.resent = 0, reqs |-> [srv.reqs EXCEPT ![r] = q]]
  /\ UNCHANGED extVars

NextServer ==
  \/ \E r \in Requests, knownAgent \in BOOLEAN, spawned \in SpawnOutcomes :
       PostLaunch(r, knownAgent, spawned)
  \/ \E r \in Requests, spawned \in SpawnOutcomes : PostCommand(r, spawned)
  \/ \E r \in Requests : ChildError(r)
  \/ \E r \in Requests, code \in {-2, 0, 1} : ChildClose(r, code)

(* The Express process alone; the extension is not running.                *)
InitServer ==
  /\ srv = NoServer
  /\ servers = EmptyMap
  /\ authTokens = EmptyMap
  /\ wsDoc = NoDoc
  /\ globalDoc = NoDoc
  /\ tokenStore = EmptyMap
  /\ wsFolder = FALSE
  /\ loadPc = "workspace"
  /\ inflight = {}
  /\ lastOp = NoOp
  /\ nOps = 0
  /\ ui = NoUi

SpecServer == InitServer /\ [][NextServer]_vars

(* ================================================================ claims *)
(* One manager call has just run to completion (Spec).                     *)
CallStep == nOps' = nOps + 1

(* The names a document holds; none when there is no document.             *)
DocNames(doc) == IF doc.ok THEN DOMAIN doc.servers ELSE {}

(* The names of the registry entries of a scope.                           *)
NamesOfScope(sc) == {k \in DOMAIN servers : servers[k].scope = sc}

(* C1: addServer(c) with c.name already a key of the registry fails with   *)
(* an error and changes nothing: the registry and both scope documents are *)
(* as before.                                                              *)
C1_DuplicateAddRejected ==
  [][(CallStep /\ lastOp'.op = "add" /\ lastOp'.present)
       => (lastOp'.threw /\ UNCHANGED <<servers, wsDoc, globalDoc>>)]_vars

(* Every property the document entry j holds is the property of the        *)
(* registry entry e, and e has no other of the document properties.        *)
FieldFrom(p, q) == (q = Absent /\ p = Undefined) \/ (q # Absent /\ p # Undefined /\ Val(p) \in q)
FieldsFrom(e, j) ==
  /\ FieldFrom(e.command, j.command)
  /\ FieldFrom(e.url, j.url)
  /\ FieldFrom(e.args, j.args)
  /\ FieldFrom(e.env, j.env)
  /\ FieldFrom(e.type, j.type)

(* C2: after load, a name held by the workspace document and by the global *)
(* document has one registry entry, of scope workspace, whose fields are   *)
(* exactly those of the workspace document's entry.                        *)
C2_WorkspaceShadowsGlobal ==
  \A n \in Names :
    (lastOp.op = "load" /\ n \in DocNames(wsDoc) \cap DocNames(globalDoc))
      => /\ n \in DOMAIN servers
         /\ servers[n].scope = "workspace"
         /\ FieldsFrom(servers[n], wsDoc.servers[n])

(* C2's case: both documents hold s1, and the global entry has a url the   *)
(* workspace entry lacks.                                                  *)
C2_Witness ==
  /\ lastOp.op = "load"
  /\ "s1" \in DocNames(wsDoc) \cap DocNames(globalDoc)
  /\ wsDoc.servers["s1"].url = Absent
  /\ globalDoc.servers["s1"].url # Absent

(* C3: after an add or remove that resolved, each scope's document holds   *)
(* exactly the names of the registry entries of that scope (stated for a   *)
(* session with a workspace folder open).                                  *)
C3_DocumentsMatchRegistry ==
  (lastOp.op \in {"add", "remove"} /\ ~lastOp.threw /\ wsFolder)
    => /\ DocNames(wsDoc) = NamesOfScope("workspace")
       /\ DocNames(globalDoc) = NamesOfScope("global")

(* C4: a name whose removeServer call resolved is absent from the registry *)
(* a new manager loads from the documents.                                 *)
C4_RemovedStaysRemoved ==
  (lastOp.op = "load" /\ lastOp.name # "") => lastOp.name \notin DOMAIN servers

(* C5: every registry entry stored under key k has name k and a transport  *)
(* among stdio, http, websocket.                                           *)
C5_EntriesHaveNameAndTransport ==
  \A k \in DOMAIN servers :
    /\ servers[k].name = Def(k)
    /\ servers[k].transport # Undefined
    /\ Val(servers[k].transport) \in Transports

(* An entry written by saveServers and read back by loadServers.           *)
RoundTrip(c) == LoadedEntry(SavedEntry(c), c.scope)

(* C6: saving a registry entry and loading it back preserves command, url, *)
(* args, env and transport, an unset field staying unset.                  *)
C6_SaveLoadRoundTrip ==
  \A k \in DOMAIN servers :
    LET c == servers[k]
        r == RoundTrip(c)
    IN /\ r.command = c.command
       /\ r.url = c.url
       /\ r.args = c.args
       /\ r.env = c.env
       /\ r.transport = c.transport

(* C7: after removeServer(n) of a present name n, neither the token cache  *)
(* nor the persisted token store holds a token for n.                      *)
C7_RemoveDeletesToken ==
  (lastOp.op = "remove" /\ lastOp.present)
    => /\ lastOp.name \notin DOMAIN authTokens
       /\ lastOp.name \notin DOMAIN tokenStore

(* C8: removeServer(n) of a name that is not in the registry, its writes   *)
(* not rejecting, leaves the registry and both documents as they were.     *)
C8_RemoveAbsentIsNoOp ==
  [][(CallStep /\ lastOp'.op = "remove" /\ ~lastOp'.present /\ ~lastOp'.threw)
       => UNCHANGED <<servers, wsDoc, globalDoc>>]_vars

(* C9: at most one mutating call is in flight: none starts while the save  *)
(* of another is outstanding.                                              *)
C9_OneCallInFlight == Cardinality(inflight) <= 1

(* C10: after addServer(c) resolved for a name that was not in the         *)
(* registry, getServer(c.name) is c, field by field.                       *)
C10_AddThenGet ==
  (lastOp.op = "add" /\ ~lastOp.present /\ ~lastOp.threw)
    => /\ lastOp.name \in DOMAIN servers
       /\ \A f \in {"name", "transport", "command", "url", "args", "env", "auth"} :
            servers[lastOp.name][f] = Val(lastOp.cfg)[f]
       /\ servers[lastOp.name].scope = Val(lastOp.cfg).scope

(* C10's case: a config with an auth config was added under a new name.    *)
C10_Witness ==
  /\ lastOp.op = "add" /\ ~lastOp.present /\ ~lastOp.threw
  /\ Val(lastOp.cfg).auth # Undefined
  /\ Val(lastOp.cfg).args # Undefined


(* C11: addServer with an empty name fails before any write and leaves the *)
(* registry and both documents as they were.                               *)
C11_EmptyNameRejected ==
  [][(CallStep /\ lastOp'.op = "add" /\ lastOp'.name = "")
       => (lastOp'.threw /\ UNCHANGED <<servers, wsDoc, globalDoc>>)]_vars

(* C12: authenticateServer for a name that is not in the registry, or for  *)
(* a server without auth config, returns false, shows no prompt and writes *)
(* neither the token cache nor the token store.                            *)
C12_NoAuthNoPrompt ==
  [][(/\ CallStep
      /\ lastOp'.op = "authenticate"
      /\ (lastOp'.name \notin DOMAIN servers
            \/ servers[lastOp'.name].auth = Undefined))
       => (/\ ~lastOp'.result
           /\ lastOp'.prompts = 0
           /\ UNCHANGED <<authTokens, tokenStore>>)]_vars

C12_Witness ==
  /\ lastOp.op = "authenticate" /\ lastOp.present
  /\ servers[lastOp.name].auth = Undefined
  /\ servers[lastOp.name].name # Undefined
  /\ lastOp.name \in DOMAIN authTokens

(* A prompt of the call was dismissed: its input box resolved to undefined. *)
Cancelled(op) ==
  /\ op.prompts >= 1
  /\ (op.a1 = Undefined \/ (op.prompts = 2 /\ op.a2 = Undefined))

(* C13: when a prompt of any flow is dismissed (the password prompt after  *)
(* an entered username included), authenticateServer returns false, throws *)
(* nothing and leaves the token cache and the token store as they were.    *)
C13_CancelKeepsTokens ==
  [][(CallStep /\ lastOp'.op = "authenticate" /\ Cancelled(lastOp'))
       => (/\ ~lastOp'.result
           /\ ~lastOp'.threw
           /\ UNCHANGED <<authTokens, tokenStore>>)]_vars

C13_Witness ==
  /\ lastOp.op = "authenticate" /\ lastOp.prompts = 2
  /\ Entered(lastOp.a1) /\ lastOp.a2 = Undefined
  /\ lastOp.name \in DOMAIN authTokens
  /\ lastOp.name \in DOMAIN tokenStore

IsOAuth2(n) ==
  /\ n \in DOMAIN servers
  /\ servers[n].auth # Undefined
  /\ Val(servers[n].auth).type = "oauth2"

(* C14: authenticateServer for any server whose auth type is oauth2,       *)
(* whether or not provider and clientId are set, shows exactly one prompt  *)
(* and, for a non-empty value v, stores {accessToken: v, tokenType:        *)
(* 'Bearer'} and returns true.                                             *)
C14_OAuth2OnePrompt ==
  (lastOp.op = "authenticate" /\ IsOAuth2(lastOp.name))
    => /\ lastOp.prompts = 1
       /\ (Entered(lastOp.a1) /\ ~lastOp.storeFailed)
            => /\ lastOp.result
               /\ lastOp.name \in DOMAIN authTokens
               /\ authTokens[lastOp.name] = BearerToken(Val(lastOp.a1))

IsBasic(n) ==
  /\ n \in DOMAIN servers
  /\ servers[n].auth # Undefined
  /\ Val(servers[n].auth).type = "basic"

(* RFC 4648 base64 of "u:p" and of "k1:p".                                 *)
KnownBase64(username, password) ==
  IF username = <<"u">> /\ password = <<"p">> THEN <<"d", "T", "p", "w">>
  ELSE IF username = <<"k", "1">> /\ password = <<"p">>
       THEN <<"a", "z", "E", "6", "c", "A", "=", "=">>
  ELSE <<>>

(* C15: the basic flow asks for the username first and for the password    *)
(* only after it; with non-empty u and p it returns true and stores        *)
(* {accessToken: base64(u ":" p), tokenType: 'Basic'}.                     *)
C15_BasicStoresBase64 ==
  (lastOp.op = "authenticate" /\ IsBasic(lastOp.name))
    => /\ lastOp.prompts = (IF Entered(lastOp.a1) THEN 2 ELSE 1)
       /\ (Entered(lastOp.a1) /\ Entered(lastOp.a2) /\ ~lastOp.storeFailed)
            => /\ lastOp.result
               /\ lastOp.name \in DOMAIN authTokens
               /\ authTokens[lastOp.name] =
                    [accessToken |-> KnownBase64(Val(lastOp.a1), Val(lastOp.a2)),
                     tokenType |-> "Basic"]
               /\ tokenStore = authTokens

C15_Witness ==
  /\ lastOp.op = "authenticate" /\ IsBasic(lastOp.name) /\ lastOp.result
  /\ lastOp.a1 = Def(<<"k", "1">>) /\ lastOp.a2 = Def(<<"p">>)

(* C16: after every authenticateServer that returns true the token store   *)
(* equals the whole token cache: the new token of that server and the      *)
(* token every other server had before, unchanged.                         *)
C16_StoreEqualsCache ==
  [][(CallStep /\ lastOp'.op = "authenticate" /\ lastOp'.result)
       => (/\ tokenStore' = authTokens'
           /\ DOMAIN authTokens' = DOMAIN authTokens \cup {lastOp'.name}
           /\ \A n \in DOMAIN authTokens \ {lastOp'.name} :
                authTokens'[n] = authTokens[n])]_vars

C16_Witness ==
  /\ lastOp.op = "authenticate" /\ lastOp.result
  /\ \E n \in DOMAIN tokenStore : n # lastOp.name

(* C17: in every state getAuthToken(n) returns a token only if n is in the *)
(* registry and its config has auth defined; for any other name it returns *)
(* undefined.                                                              *)
C17_TokenOnlyForAuthServer ==
  loadPc = "done"
    => \A n \in Names :
         getAuthToken(n) # Undefined
           => (n \in DOMAIN servers /\ servers[n].auth # Undefined)

(* C18: a token held for a name that is not in the registry stays in the   *)
(* token cache, with its value, over every add, remove and authenticate;   *)
(* if the token store holds the same token it keeps it too.                *)
C18_OrphanTokensKept ==
  [][(CallStep /\ lastOp'.op \in {"add", "remove", "authenticate"})
       => \A n \in Names :
            (n \in DOMAIN authTokens /\ n \notin DOMAIN servers)
              => /\ n \in DOMAIN authTokens'
                 /\ authTokens'[n] = authTokens[n]
                 /\ (n \in DOMAIN tokenStore /\ tokenStore[n] = authTokens[n])
                      => (n \in DOMAIN tokenStore'
                          /\ tokenStore'[n] = tokenStore[n])]_vars

C18_Witness ==
  /\ lastOp.op = "authenticate" /\ lastOp.result
  /\ \E n \in DOMAIN tokenStore \cap DOMAIN authTokens :
       n \notin DOMAIN servers /\ tokenStore[n] = authTokens[n]

(* C19: addServer and removeServer change the registry before they write;  *)
(* when the write fails the call throws, the change stays in the registry  *)
(* and a document stays as it was; the next call whose writes succeed      *)
(* brings each document it writes up to the registry.                      *)
C19_MutationSurvivesFailedWrite ==
  [][(CallStep /\ lastOp'.op \in {"add", "remove"})
       => /\ lastOp'.op = "add"
               => (lastOp'.name \in DOMAIN servers'
                   /\ servers'[lastOp'.name] = Val(lastOp'.cfg))
          /\ lastOp'.op = "remove" => lastOp'.name \notin DOMAIN servers'
          /\ lastOp'.threw => (wsDoc' = wsDoc \/ globalDoc' = globalDoc)
          /\ ~lastOp'.threw
               => LET ws == {k \in DOMAIN servers' : servers'[k].scope = "workspace"}
                      gl == {k \in DOMAIN servers' : servers'[k].scope = "global"}
                  IN /\ (wsFolder /\ ws # {}) => DocNames(wsDoc') = ws
                     /\ gl # {} => DocNames(globalDoc') = gl]_vars

C19_Witness ==
  /\ lastOp.op = "add" /\ lastOp.threw /\ ~lastOp.present
  /\ lastOp.name \in DOMAIN servers
  /\ lastOp.name \notin DocNames(wsDoc) \cup DocNames(globalDoc)

(* C20: every add, remove or authenticate command that changes the         *)
(* registry or the token cache calls refresh before it ends, so that the   *)
(* tree shows the rows of the changed state.                               *)
C20_MutationThenRefresh ==
  [][(/\ CallStep
      /\ ui'.cmd \in {"add", "remove", "authenticate"}
      /\ (servers' # servers \/ authTokens' # authTokens))
       => (/\ ui'.refreshed
           /\ ui'.rows = getChildren(servers', authTokens'))]_vars

(* C21: when the registry holds a global entry named n, addServer of a     *)
(* workspace config of the same name with another url makes getServer(n)   *)
(* return the workspace config, url included.                              *)
C21_WorkspaceAddReplacesGlobal ==
  [][(/\ CallStep
      /\ lastOp'.op = "add"
      /\ lastOp'.present
      /\ servers[lastOp'.name].scope = "global"
      /\ Val(lastOp'.cfg).scope = "workspace"
      /\ Val(lastOp'.cfg).url # Undefined
      /\ Val(lastOp'.cfg).url # servers[lastOp'.name].url)
       => (/\ getServer(servers', lastOp'.name) # Undefined
           /\ Val(getServer(servers', lastOp'.name)).url = Val(lastOp'.cfg).url
           /\ Val(getServer(servers', lastOp'.name)).scope = "workspace")]_vars

(* C21's case: a workspace config with a url was added over a name the     *)
(* global document holds with another url.                                 *)
C21_Witness ==
  /\ lastOp.op = "add" /\ lastOp.present
  /\ Val(lastOp.cfg).scope = "workspace"
  /\ Val(lastOp.cfg).url # Undefined
  /\ lastOp.name \in DocNames(globalDoc)
  /\ globalDoc.servers[lastOp.name].url # Absent
  /\ globalDoc.servers[lastOp.name].url # JsonProp(Val(lastOp.cfg).url)
  /\ lastOp.name \notin DocNames(wsDoc)

(* C22: after addServer(c) resolved on an empty registry, getAllServers()  *)
(* has exactly one entry and the document of c.scope holds under c.name an *)
(* entry whose type is c.transport and whose args are c.args, in order.    *)
C22_FirstAddPersisted ==
  [][(/\ CallStep
      /\ lastOp'.op = "add"
      /\ ~lastOp'.threw
      /\ DOMAIN servers = {}
      /\ Val(lastOp'.cfg).args # Undefined)
       => LET c == Val(lastOp'.cfg)
              doc == IF c.scope = "workspace" THEN wsDoc' ELSE globalDoc'
          IN /\ Cardinality(DOMAIN getAllServers(servers')) = 1
             /\ doc.ok
             /\ lastOp'.name \in DOMAIN doc.servers
             /\ doc.servers[lastOp'.name].type = Present(Val(c.transport))
             /\ doc.servers[lastOp'.name].args = Present(Val(c.args))]_vars

(* The step is the constructor's loadServers.                              *)
LoadStep == loadPc = "workspace" /\ loadPc' = "done"

(* C23: when a scope's document is missing or does not parse, loadServers  *)
(* throws nothing, shows nothing, takes no entry from that scope and       *)
(* still loads every entry of the other scope's document.                  *)
C23_UnreadDocumentSkipped ==
  [][LoadStep
       => /\ ~lastOp'.threw
          /\ UNCHANGED ui
          /\ ~(wsFolder /\ wsDoc.ok)
               => /\ DOMAIN servers' = DocNames(globalDoc)
                  /\ \A k \in DOMAIN servers' :
                       /\ servers'[k].scope = "global"
                       /\ FieldsFrom(servers'[k], globalDoc.servers[k])
          /\ ~globalDoc.ok
               => /\ DOMAIN servers' = (IF wsFolder THEN DocNames(wsDoc) ELSE {})
                  /\ \A k \in DOMAIN servers' :
                       /\ servers'[k].scope = "workspace"
                       /\ FieldsFrom(servers'[k], wsDoc.servers[k])]_vars

(* C23's case: the workspace document does not parse and the entry of the  *)
(* global document was loaded.                                             *)
C23_Witness ==
  /\ lastOp.op = "load"
  /\ wsFolder /\ wsDoc = Malformed
  /\ globalDoc.ok /\ DOMAIN servers = DocNames(globalDoc) /\ servers # EmptyMap

(* C24: when a prompt or the token storage throws during                   *)
(* authenticateServer, nothing propagates out of it: the manager shows its *)
(* error message and the call returns false.                               *)
C24_AuthExceptionCaught ==
  [][(/\ CallStep
      /\ ui'.cmd = "authenticate"
      /\ (lastOp'.storeFailed \/ lastOp'.a1 = Rejects \/ lastOp'.a2 = Rejects))
       => (/\ ~lastOp'.threw
           /\ ~lastOp'.result
           /\ "Authentication failed for" \in ui'.messages)]_vars

(* C24's case: the password box rejected after a username was entered.     *)
C24_Witness ==
  /\ ui.cmd = "authenticate" /\ lastOp.op = "authenticate"
  /\ Entered(lastOp.a1) /\ lastOp.a2 = Rejects

(* C25: when an authentication ends because a prompt was dismissed, no     *)
(* message is shown, neither by the manager nor by the authenticate        *)
(* command.                                                                *)
C25_CancelShowsNothing ==
  [][(CallStep /\ ui'.cmd = "authenticate" /\ Cancelled(lastOp'))
       => ui'.messages = {}]_vars

(* A command step in which a write, a prompt or the token storage failed   *)
(* ends with the error message of its handler and with the extension ready *)
(* for the next command.                                                   *)
CommandFailureShown ==
  /\ (CallStep /\ ui'.cmd = "add" /\ lastOp'.threw)
       => ("Failed to add" \in ui'.messages /\ loadPc' = "done")
  /\ (CallStep /\ ui'.cmd = "remove" /\ lastOp'.threw)
       => ("Failed to remove" \in ui'.messages /\ loadPc' = "done")
  /\ (/\ CallStep
      /\ ui'.cmd = "authenticate"
      /\ (lastOp'.storeFailed \/ lastOp'.a1 = Rejects \/ lastOp'.a2 = Rejects))
       => ("Authentication failed for" \in ui'.messages /\ loadPc' = "done")

(* The constructor's load read a file that does not parse.                 *)
LoadReadFailed ==
  LoadStep /\ ((wsFolder /\ wsDoc = Malformed) \/ globalDoc = Malformed)

C27_CommandXorUrl ==
  loadPc = "done"
    => \A k \in DOMAIN servers :
         LET e == servers[k] IN
           /\ (Truthy(e.command) /\ ~Truthy(e.url)) <=> (e.transport = Def("stdio"))
           /\ (Truthy(e.url) /\ ~Truthy(e.command))
                <=> (e.transport \in {Def("http"), Def("websocket")})

(* The token the cache toks holds for n, Undefined when it holds none.     *)
TokenOf(toks, n) == IF n \in DOMAIN toks THEN Def(toks[n]) ELSE Undefined

(* C28: within a session the cached token of a server n changes only       *)
(* through an authenticateServer(n) that returns true, and is then the     *)
(* token built from the credentials entered in that call; nothing else     *)
(* changes or removes it.                                                  *)
C28_TokenChangesOnlyOnSuccess ==
  [][\A n \in Names :
       (TokenOf(authTokens', n) # TokenOf(authTokens, n) /\ lastOp'.op # "new")
         => /\ lastOp'.op = "authenticate"
            /\ lastOp'.name = n
            /\ lastOp'.result
            /\ TokenOf(authTokens', n) =
                 Def(IF lastOp'.prompts = 2
                     THEN [accessToken |-> KnownBase64(Val(lastOp'.a1), Val(lastOp'.a2)),
                           tokenType |-> "Basic"]
                     ELSE BearerToken(Val(lastOp'.a1)))]_vars

(* C29: after a refresh the view has one root row per registry entry, made *)
(* from the registry and the token cache as they are now; the row shows    *)
(* the authenticated glyph iff the entry has auth defined and a token is   *)
(* cached for its name, the not-authenticated glyph iff it has auth        *)
(* defined and no token is cached, and no glyph iff auth is undefined.     *)
C29_GlyphFollowsAuthAndToken ==
  ui.refreshed =>
    /\ DOMAIN ui.rows = DOMAIN servers
    /\ \A k \in DOMAIN servers :
         /\ ui.rows[k].label = servers[k].name
         /\ ui.rows[k].transport = servers[k].transport
         /\ ui.rows[k].glyph = "authenticated"
              <=> (servers[k].auth # Undefined /\ k \in DOMAIN authTokens)
         /\ ui.rows[k].glyph = "locked"
              <=> (servers[k].auth # Undefined /\ k \notin DOMAIN authTokens)
         /\ ui.rows[k].glyph = "none" <=> servers[k].auth = Undefined

(* A refreshed view that shows an authenticated row for an entry with auth *)
(* and a cached token, next to a row without glyph.                        *)
C29_Witness ==
  /\ ui.refreshed
  /\ \E k \in DOMAIN servers :
       /\ servers[k].auth # Undefined
       /\ k \in DOMAIN authTokens
       /\ ui.rows[k].glyph = "authenticated"
  /\ \E k \in DOMAIN servers : ui.rows[k].glyph = "none"

(* The step is a call of one of the three getters.                         *)
ReadStep == CallStep /\ lastOp'.op \in {"getServer", "getAllServers", "getAuthToken"}

(* C30: a call of getServer, getAllServers or getAuthToken leaves the      *)
(* registry, the token cache, both documents and the token store as they   *)
(* were, shows no input box and no message.                                *)
C30_ReadsArePure ==
  [][ReadStep =>
       /\ UNCHANGED <<servers, authTokens, wsDoc, globalDoc, tokenStore>>
       /\ lastOp'.prompts = 0
       /\ ui' = ui]_vars

(* The last call was a getAuthToken that found a token, which the cache    *)
(* still holds, with a registry that is not empty.                         *)
C30_Witness ==
  /\ lastOp.op = "getAuthToken"
  /\ lastOp.present
  /\ lastOp.name \in DOMAIN authTokens
  /\ servers # EmptyMap

(* C31: the editServer command, on whatever row it is invoked, leaves the  *)
(* registry, the token cache, both documents and the token store as they   *)
(* were.                                                                   *)
C31_EditChangesNothing ==
  [][(CallStep /\ ui'.cmd = "edit")
       => UNCHANGED <<servers, authTokens, wsDoc, globalDoc, tokenStore>>]_vars

(* The edit command has run on the row of a server that is in the          *)
(* registry and in a document.                                             *)
C31_Witness ==
  /\ ui.cmd = "edit"
  /\ \E k \in DOMAIN ui.rows :
       /\ k \in DOMAIN servers
       /\ k \in DocNames(wsDoc) \cup DocNames(globalDoc)

(* C32: with the setting trustUnknownServers off, an add command changes   *)
(* the registry or a document only when the modal warning was answered     *)
(* 'Trust'; 'Cancel' or a dismissal leaves the registry and both           *)
(* documents as they were.                                                 *)
C32_UntrustedNeverAdded ==
  [][(CallStep /\ ui'.cmd = "add" /\ ui'.trust # "setting")
       => /\ (servers' # servers \/ wsDoc' # wsDoc \/ globalDoc' # globalDoc)
               => ui'.trust = "Trust"
          /\ ui'.trust \in {"Cancel", "dismissed"}
               => UNCHANGED <<servers, wsDoc, globalDoc>>]_vars

(* The add command, its warning answered 'Trust', has put a server into    *)
(* the registry.                                                           *)
C32_Witness ==
  /\ ui.cmd = "add"
  /\ ui.trust = "Trust"
  /\ "added" \in ui.messages
  /\ lastOp.op = "add"
  /\ lastOp.name \in DOMAIN servers

(* C33: an add command that returns at the name, transport, command/URL,   *)
(* scope or trust prompt leaves the registry, both documents, the token    *)
(* cache and the token store as they were, does not refresh the view and   *)
(* shows no message.                                                       *)
C33_CancelledAddChangesNothing ==
  [][(CallStep /\ ui'.cmd = "add"
        /\ ui'.stage \in {"name", "transport", "target", "scope", "trust"})
       => /\ UNCHANGED <<servers, wsDoc, globalDoc, authTokens, tokenStore>>
          /\ ~ui'.refreshed
          /\ ui'.rows = ui.rows
          /\ ui'.messages = {}]_vars

(* The add command was cancelled at the trust prompt while the registry    *)
(* and a document held a server.                                           *)
C33_Witness ==
  /\ ui.cmd = "add"
  /\ ui.stage = "trust"
  /\ ui.trust = "dismissed"
  /\ servers # EmptyMap
  /\ DocNames(wsDoc) \cup DocNames(globalDoc) # {}

(* The only call of the session so far is one addServer, perhaps still     *)
(* awaiting its writes.                                                    *)
OnlyOneAdd ==
  /\ nOps' <= 1
  /\ lastOp'.op \in {"new", "load", "add"}
  /\ \A j \in inflight \cup inflight' : j.op = "add"

(* C34: an addServer issued while the constructor's load is still pending  *)
(* ends as one issued after it: the load does not replace or drop an       *)
(* entry the registry already holds, and with a workspace folder open no   *)
(* name a document held is lost from both documents.                       *)
C34_EarlyAddAsLateAdd ==
  [][OnlyOneAdd =>
       /\ (loadPc # "done" /\ loadPc' # loadPc)
            => \A n \in DOMAIN servers :
                 n \in DOMAIN servers' /\ servers'[n] = servers[n]
       /\ wsFolder
            => (DocNames(wsDoc) \cup DocNames(globalDoc))
                 \subseteq (DocNames(wsDoc') \cup DocNames(globalDoc'))]_vars

(* The save k has already put its snapshot of the scope on disk.           *)
WroteScope(k, scope) ==
  IF scope = "workspace"
  THEN wsFolder /\ DOMAIN k.ws # {} /\ k.pc \in {"global", "done"}
  ELSE DOMAIN k.global # {} /\ k.pc = "done"

(* In this step the write of the save j to the scope's document lands.     *)
WriteLands(j, scope) ==
  /\ j.pc = scope
  /\ j \notin inflight'
  /\ \E j2 \in inflight' : j2.id = j.id /\ j2.pc \in {"global", "done"} \ {scope}

(* C35: when two mutating calls overlap, the write of an older snapshot    *)
(* of a scope never lands after the write of a newer snapshot of the same  *)
(* scope, so the document ends as the newest snapshot.                     *)
C35_OlderWriteNeverLast ==
  [][\A scope \in Scopes : \A j \in inflight, k \in inflight :
       (WriteLands(j, scope) /\ WroteScope(k, scope)) => k.id < j.id]_vars

(* What a document holds under the name m: its entry, or nothing.          *)
EntryIn(doc, m) == IF m \in DocNames(doc) THEN {doc.servers[m]} ELSE {}

(* C36: an addServer or removeServer of the name n leaves the entry of     *)
(* every other name in the workspace document and in the global document   *)
(* as it was, a global entry shadowed by a workspace entry and entries     *)
(* loaded from disk included.                                              *)
C36_OtherEntriesUntouched ==
  [][(CallStep /\ lastOp'.op \in {"add", "remove"})
       => \A m \in Names \ {lastOp'.name} :
            /\ EntryIn(wsDoc', m) = EntryIn(wsDoc, m)
            /\ EntryIn(globalDoc', m) = EntryIn(globalDoc, m)]_vars

(* The document of a scope, after the step.                                *)
DocOfScopeAfter(sc) == IF sc = "workspace" THEN wsDoc' ELSE globalDoc'

(* C37: whenever addServer(c) resolves without error, the document of      *)
(* c.scope holds an entry for c.name, also for the scope workspace when no *)
(* workspace folder is open.                                               *)
C37_ResolvedAddIsOnDisk ==
  [][(CallStep /\ lastOp'.op = "add" /\ ~lastOp'.threw)
       => lastOp'.name \in DocNames(DocOfScopeAfter(Val(lastOp'.cfg).scope))]_vars

(* C38: a registry entry with an auth config, saved and loaded again, has  *)
(* the same auth config: authenticateServer dispatches to the same flow    *)
(* for it, and its root row still shows an authentication glyph.           *)
C38_AuthSurvivesRestart ==
  \A k \in DOMAIN servers :
    LET c == servers[k]
        r == RoundTrip(c)
    IN c.auth # Undefined
         => /\ r.auth = c.auth
            /\ AuthFlow([x \in {k} |-> r], k) = AuthFlow([x \in {k} |-> c], k)
            /\ MCPServerItem(r, authTokens).glyph # "none"

(* C39: whenever authenticateServer(n) returns false, a rejected write of  *)
(* the token store included, the cached token of n is what it was before   *)
(* the call, and a cache that agreed with the token store still agrees     *)
(* with it.                                                                *)
C39_FailedAuthLeavesCache ==
  [][(CallStep /\ lastOp'.op = "authenticate" /\ ~lastOp'.result)
       => /\ TokenOf(authTokens', lastOp'.name) = TokenOf(authTokens, lastOp'.name)
          /\ authTokens = tokenStore => authTokens' = tokenStore']_vars

(* Nothing more will happen on the request r: its child has closed, it was *)
(* answered without a child, or the process has ended.                     *)
RequestOver(r) ==
  /\ srv.reqs[r].pc # "none"
  /\ srv.reqs[r].pc = "ended" \/ ~srv.up

(* C40: every request the launch or the command handler took on gets       *)
(* exactly one response, whatever its child process does: no request is    *)
(* over with no response, or after a second attempt to respond.            *)
C40_ExactlyOneResponse ==
  \A r \in Requests :
    /\ srv.reqs[r].sent <= 1
    /\ srv.reqs[r].resent = 0
    /\ RequestOver(r) => srv.reqs[r].sent = 1

====
